---- MODULE Spec2Model ----
(***************************************************************************)
(* The retry controller of the "retry failed jobs" extension: the content  *)
(* script's RerunManager (start / cancel / the timeout timer / the loop),  *)
(* driven by main() and by the message listener main() registers.          *)
(*                                                                         *)
(* JavaScript runs each callback to completion, so one action of the model *)
(* is one synchronous segment of the code: from the point a callback is    *)
(* entered (or an `await Task.Delay(1000)` resumes) to the next await or   *)
(* to the end of the function.  The page may change between any two        *)
(* segments and not within one, so each segment takes the job status it    *)
(* reads (st) and the result of the one #clickButton call it can make as   *)
(* inputs.                                                                 *)
(*                                                                         *)
(* Time is counted in whole seconds.  A Task.Delay(1000) resumes in the    *)
(* next second.  The timeout timer (five hours in the source) falls due    *)
(* in any second after the one it was armed in.                            *)
(***************************************************************************)
EXTENDS Integers, Sequences, FiniteSets, TLC

(* ---- bounds of the model ------------------------------------------------ *)

\* how many times start() may be called (main's call included)
MaxStarts == 2

\* the clock counts up to Horizon; Horizon stands for every later second
Horizon == 3

\* RerunManager.MAX_RETRY_COUNT (8 in the source), scaled down
MAX_RETRY_COUNT == 2

\* RerunManager.ITER_DELAY_MILLIS (60 s in the source), in seconds, scaled down
ITER_DELAY_SECS == 2

\* waitForPageToRespondTimeout (30 s in the source), in seconds, scaled down
SETTLE_SECS == 2

\* the n tried for the URL parameter maxRetryCount=n
UrlRetries == 1

(* ---- constants of the source and of its README ---------------------------- *)

\* `static MAX_RETRY_COUNT = 8`, unscaled
DEFAULT_MAX_RETRY_COUNT == 8

\* README: "retries up to 5 times"
README_MAX_RETRIES == 5


(* ---- values ------------------------------------------------------------- *)

\* JavaScript's null, for the fields that hold null or a value
NULL == -1

SUCCESS == "success"
FAILED == "failed"
ACTIVE == "active"
UNKNOWN == "unknown"

JobStatus == {SUCCESS, FAILED, ACTIVE, UNKNOWN}

CANCELLED_BY_USER == "cancelled by user"
TIMED_OUT == "timed out"
NoReason == "null"

\* one loop task, one timeout timer and one nonce per call of start()
Runs == 1..MaxStarts

VARIABLES
  startTime,           \* #startTime: NULL or the second start() ran in
  endTime,             \* #endTime
  retries,             \* #retries
  cancelled,           \* #cancelled
  cancellationReason,  \* #cancellationReason
  cancellationNonce,   \* #cancellationNonce: NULL or the nonce of the last start()
  now,                 \* new Date(), in seconds
  page,                \* the page the script runs on: "live", "stuck" or
                       \* "ready"
  oracle,              \* the statuses the page shows to the coming segments
                       \* that read the job status, in order, the last one
                       \* for good; <<>> when it may show any status
  urlMaxRetryCount,    \* the maxRetryCount=n parameter of the page's URL,
                       \* NULL when the URL has none
  maxRetryCount,       \* the static field RerunManager.MAX_RETRY_COUNT
  mainPc,              \* main(): "init" before it ran, "returned" after
  nStarts,             \* calls of start() so far; the n-th call is run n
  pc,                  \* per run: where its loop task is suspended
  due,                 \* per run: whether its pending Task.Delay has elapsed
  elapsed,             \* per run: new Date() minus the local sleepStart, or
                       \* minus the start of the settle wait (timeout - 30 s)
  timer,               \* per run: its timeout timer: "unarmed", "armed",
                       \* "due" or "fired"
  out,                 \* the snapshots the last step sent, in order
  ev                   \* the last step: the operation, its run, the status and
                       \* the click result it read, the RunState before it

vars == <<startTime, endTime, retries, cancelled, cancellationReason,
          cancellationNonce, now, page, oracle, urlMaxRetryCount, maxRetryCount, mainPc, nStarts, pc, due, elapsed, timer,
          out, ev>>

\* what no step of the program writes
fixed == <<page, urlMaxRetryCount, maxRetryCount>>

(* ---- RunState as a value -------------------------------------------------- *)

\* the private instance members, as the segment being executed sees them
RunState ==
  [startTime |-> startTime, endTime |-> endTime, retries |-> retries,
   cancelled |-> cancelled, cancellationReason |-> cancellationReason,
   cancellationNonce |-> cancellationNonce]

\* the members as the field initialisers leave them
InitialState ==
  [startTime |-> NULL, endTime |-> NULL, retries |-> 0, cancelled |-> FALSE,
   cancellationReason |-> NoReason, cancellationNonce |-> NULL]

running(rs) == rs.startTime # NULL /\ rs.endTime = NULL

\* finished as soon as endTime is set, cancelled or not
finishedIgnoresCancel(rs) == rs.endTime # NULL

finished(rs) == rs.endTime # NULL /\ ~rs.cancelled

shouldRun(rs) == ~rs.cancelled /\ rs.retries < maxRetryCount

\* the serializable object sent to the background script
currentState(rs, st) ==
  [running |-> running(rs),
   cancelled |-> rs.cancelled,
   finished |-> finished(rs),
   status |-> st,
   startTime |-> IF rs.startTime = NULL THEN 0 ELSE rs.startTime,
   endTime |-> IF rs.endTime = NULL THEN 0 ELSE rs.endTime,
   retries |-> rs.retries,
   cancellationReason |-> rs.cancellationReason]

\* #sendUpdate: one more snapshot on the channel
sendUpdate(rs, o, st) == Append(o, currentState(rs, st))

\* resetState that forgets to clear the retry count
resetStateKeepsRetries(rs) == [InitialState EXCEPT !.retries = rs.retries]

resetState(rs) == InitialState

\* cancel that drops its argument
cancelNoReason(rs, reason) == [rs EXCEPT !.endTime = now, !.cancelled = TRUE]

\* cancel(reason), the RunState it leaves
cancel(rs, reason) ==
  [rs EXCEPT !.endTime = now, !.cancelled = TRUE, !.cancellationReason = reason]

\* the timeout callback without the comparison of nonces
timeoutGuardNoNonce(rs, nonce) == ~rs.cancelled

\* the condition of the timeout callback, for the nonce it captured
timeoutGuard(rs, nonce) == ~rs.cancelled /\ rs.cancellationNonce = nonce

(* ---- the loop task of start(), segment by segment ------------------------- *)

\* what a segment leaves: RunState, the snapshots sent, the label the task is
\* suspended at ("done" once start() has returned), the seconds since the
\* time mark of the wait it is in, what the segment's #clickButton call
\* returned ("none" when it made none), whether it read the jobStatus getter
Result(rs, o, p, el) ==
  [rs |-> rs, out |-> o, pc |-> p, elapsed |-> el, click |-> "none", read |-> TRUE]

\* an exit that never stamps endTime
stampEndNever(rs) == rs

\* `if (!this.#cancelled) this.#endTime = new Date()`
stampEnd(rs) == IF ~rs.cancelled THEN [rs EXCEPT !.endTime = now] ELSE rs

\* an exit that sends no terminal snapshot
exitLoopSilent(rs, o, st) == Result(stampEnd(rs), o, "done", 0)

\* the end of start(): stamp endTime unless cancelled, send the update
exitLoop(rs, o, st) ==
  LET rs2 == stampEnd(rs)
  IN  Result(rs2, sendUpdate(rs2, o, st), "done", 0)

\* the post-loop wait without the check of the cancellation flag
drainIgnoresCancel(rs, st) == st = ACTIVE

\* whether the wait for the job to leave "active" goes on
drainCondition(rs, st) == ~rs.cancelled /\ st = ACTIVE

\* after the while loop: wait while the job is active, then exit
postLoop(rs, o, st) ==
  IF drainCondition(rs, st)
  THEN Result(rs, o, "drain", 0)
  ELSE exitLoop(rs, o, st)

\* a settle wait that does not look at the cancellation flag
settleIgnoresCancel(rs, st, el) == st # ACTIVE /\ el < SETTLE_SECS

\* whether the wait for the page to show the job as active goes on, el
\* seconds after it began
settleCondition(rs, st, el) == ~rs.cancelled /\ st # ACTIVE /\ el < SETTLE_SECS

\* an iteration sleep that cannot be interrupted by cancel
sleepIgnoresCancel(rs, el) == rs.retries < maxRetryCount /\ el < ITER_DELAY_SECS

\* whether the iteration sleep goes on, el seconds after sleepStart
sleepCondition(rs, el) == shouldRun(rs) /\ el < ITER_DELAY_SECS

\* a check that stops the loop as soon as the job is not active
pipelineSettled(st) == st # ACTIVE

\* `if (this.jobStatus === JobStatus.SUCCESS)`: the pipeline completed
pipelineSucceeded(st) == st = SUCCESS

RECURSIVE whileLoop(_, _, _, _)

\* the iteration sleep and, after it, the check for success
sleepLoop(rs, o, st, el, click) ==
  IF sleepCondition(rs, el)
  THEN [Result(rs, o, "sleep", el) EXCEPT !.read = FALSE]
  ELSE IF pipelineSucceeded(st)
       THEN postLoop(rs, o, st)
       ELSE whileLoop(rs, o, st, click)

\* `if (clicked)`: the bounded wait for the job to become active
settleWait(rs, o, st, clicked) ==
  IF clicked /\ settleCondition(rs, st, 0)
  THEN Result(rs, o, "settle", 0)
  ELSE LET r == sleepLoop(rs, o, st, 0, FALSE)
       IN  [r EXCEPT !.read = r.read \/ (clicked /\ ~rs.cancelled)]

\* `while (this.#shouldRun)`, from its condition; click is what
\* #clickButton(RETRY_BUTTON_TEXT) returns
whileLoop(rs, o, st, click) ==
  IF shouldRun(rs)
  THEN IF click
       THEN [Result(rs, o, "confirm", 0) EXCEPT !.click = "retry"]
       ELSE [settleWait(rs, o, st, FALSE) EXCEPT !.click = "noRetry", !.read = TRUE]
  ELSE postLoop(rs, o, st)

\* a count that goes up by two
countRetryTwice(rs) == [rs EXCEPT !.retries = rs.retries + 2]

\* `this.#retries++`
countRetry(rs) == [rs EXCEPT !.retries = rs.retries + 1]

\* a confirm step that counts the retry whether or not the button was found
resumeConfirmCountsAlways(rs, o, st, found) ==
  LET rs2 == countRetry(rs)
  IN  [settleWait(rs2, sendUpdate(rs2, o, st), st, found)
         EXCEPT !.click = IF found THEN "confirm" ELSE "noConfirm", !.read = TRUE]

\* after the 1 s delay: found is what #clickButton(CONFIRM_BUTTON_TEXT) returns
resumeConfirm(rs, o, st, found) ==
  IF found
  THEN LET rs2 == countRetry(rs)
       IN  [settleWait(rs2, sendUpdate(rs2, o, st), st, TRUE)
              EXCEPT !.click = "confirm", !.read = TRUE]
  ELSE [settleWait(rs, o, st, FALSE) EXCEPT !.click = "noConfirm"]

\* the do-while of the settle wait, at its condition
resumeSettle(rs, o, st, el) ==
  IF settleCondition(rs, st, el)
  THEN Result(rs, o, "settle", el)
  ELSE [sleepLoop(rs, o, st, 0, FALSE) EXCEPT !.read = TRUE]

\* the do-while of the post-loop wait, at its condition
resumeDrain(rs, o, st) ==
  IF drainCondition(rs, st)
  THEN Result(rs, o, "drain", 0)
  ELSE exitLoop(rs, o, st)

\* what start() writes before it arms the timer: reset, startTime, nonce
\* (uuidv4() is taken to be fresh: the nonce of run n is n)
beginRun(rs, nonce) ==
  [resetState(rs) EXCEPT !.startTime = now, !.cancellationNonce = nonce]

\* start() up to its first await, as run n
start(rs, o, st, n, click) ==
  LET rs1 == beginRun(rs, n)
  IN  [whileLoop(rs1, sendUpdate(rs1, o, st), st, click) EXCEPT !.read = TRUE]

\* where the loop task of a run suspended at p goes on
resume(p, rs, st, el, b) ==
  CASE p = "confirm" -> resumeConfirm(rs, <<>>, st, b)
    [] p = "settle" -> resumeSettle(rs, <<>>, st, el)
    [] p = "sleep" -> sleepLoop(rs, <<>>, st, el, b)
    [] p = "drain" -> resumeDrain(rs, <<>>, st)

(* ---- the steps of the program ------------------------------------------- *)

Waiting == {"confirm", "settle", "sleep", "drain"}

\* the labels at which the task measures time since a mark
Timed == {"settle", "sleep"}

NoStatus == "none"

\* what the jobStatus getter can return in the coming segment: the next
\* status of oracle if there is one; else failed on a stuck page, which shows
\* the job as failed for good, and any status on the other pages
Statuses ==
  IF oracle # <<>> THEN {Head(oracle)}
  ELSE IF page = "stuck" THEN {FAILED} ELSE JobStatus

\* what #clickButton can return on this page: a stuck page has no button, a
\* ready page always has the button asked for
Clicks ==
  IF page = "stuck" THEN {FALSE}
  ELSE IF page = "ready" THEN {TRUE} ELSE BOOLEAN

\* oracle after a segment: one status further if the segment read the
\* status and another one follows
oracleAfter(read) ==
  IF read /\ Len(oracle) > 1 THEN Tail(oracle) ELSE oracle

Event(op, i, st, c) ==
  [op |-> op, run |-> i, status |-> st, click |-> c, was |-> RunState]

\* write RunState back
SetRunState(rs) ==
  /\ startTime' = rs.startTime
  /\ endTime' = rs.endTime
  /\ retries' = rs.retries
  /\ cancelled' = rs.cancelled
  /\ cancellationReason' = rs.cancellationReason
  /\ cancellationNonce' = rs.cancellationNonce

\* write back what the segment of run i left
Commit(op, i, st, r) ==
  /\ SetRunState(r.rs)
  /\ out' = r.out
  /\ due' = [due EXCEPT ![i] = FALSE]
  /\ elapsed' = [elapsed EXCEPT ![i] = r.elapsed]
  /\ pc' = [pc EXCEPT ![i] = r.pc]
  /\ ev' = Event(op, i, IF r.read THEN st ELSE NoStatus, r.click)
  /\ oracle' = oracleAfter(r.read)

\* a call of start(): the next run begins, its timer is armed
StartCall(op) ==
  /\ nStarts < MaxStarts
  /\ \E st \in Statuses, click \in Clicks :
       Commit(op, nStarts + 1, st, start(RunState, <<>>, st, nStarts + 1, click))
  /\ nStarts' = nStarts + 1
  /\ timer' = [timer EXCEPT ![nStarts + 1] = "armed"]

\* a call of cancel(reason) from outside the loop task
CancelCall(op, i, reason) ==
  \E st \in Statuses :
    LET rs2 == cancel(RunState, reason)
    IN  /\ SetRunState(rs2)
        /\ out' = sendUpdate(rs2, <<>>, st)
        /\ ev' = Event(op, i, st, "none")
        /\ oracle' = oracleAfter(TRUE)

\* main(): registers the listener, then starts the loop
Main ==
  /\ mainPc = "init"
  /\ ~running(RunState)
  /\ mainPc' = "returned"
  /\ StartCall("main")
  /\ UNCHANGED <<now, fixed>>

\* a listener that starts on every click
ToggleStartUnguarded ==
  /\ mainPc = "returned"
  /\ StartCall("toggleStart")
  /\ UNCHANGED <<now, fixed, mainPc>>

\* the listener, message "action-clicked", while not running
ToggleStart ==
  /\ mainPc = "returned"
  /\ ~running(RunState)
  /\ StartCall("toggleStart")
  /\ UNCHANGED <<now, fixed, mainPc>>

\* a listener that cancels on every click
ToggleCancelAlways ==
  /\ mainPc = "returned"
  /\ CancelCall("toggleCancel", 0, CANCELLED_BY_USER)
  /\ UNCHANGED <<now, fixed, mainPc, nStarts, pc, due, elapsed, timer>>

\* the listener, message "action-clicked", while running
ToggleCancel ==
  /\ mainPc = "returned"
  /\ running(RunState)
  /\ CancelCall("toggleCancel", 0, CANCELLED_BY_USER)
  /\ UNCHANGED <<now, fixed, mainPc, nStarts, pc, due, elapsed, timer>>

\* a listener that takes every message for a click on a running run
OtherMessageCancels ==
  /\ mainPc = "returned"
  /\ CancelCall("otherMessage", 0, CANCELLED_BY_USER)
  /\ UNCHANGED <<now, fixed, mainPc, nStarts, pc, due, elapsed, timer>>

\* the listener, a message of another type (such as "url-updated"): the
\* default branch, which only logs
OtherMessage ==
  /\ mainPc = "returned"
  /\ out' = <<>>
  /\ ev' = Event("otherMessage", 0, NoStatus, "none")
  /\ UNCHANGED <<startTime, endTime, retries, cancelled, cancellationReason,
                 cancellationNonce, now, fixed, oracle, mainPc, nStarts, pc,
                 due, elapsed, timer>>

\* the timeout callback of run i
Timeout(i) ==
  /\ timer[i] = "due"
  /\ timer' = [timer EXCEPT ![i] = "fired"]
  /\ IF timeoutGuard(RunState, i)
     THEN CancelCall("timeout", i, TIMED_OUT)
     ELSE /\ out' = <<>>
          /\ ev' = Event("timeout", i, NoStatus, "none")
          /\ UNCHANGED <<oracle, startTime, endTime, retries, cancelled,
                         cancellationReason, cancellationNonce>>
  /\ UNCHANGED <<now, fixed, mainPc, nStarts, pc, due, elapsed>>

\* the loop task of run i resumes from its Task.Delay
Resume(i) ==
  /\ pc[i] \in Waiting
  /\ due[i]
  /\ \E st \in Statuses, b \in Clicks :
       Commit("resume", i, st, resume(pc[i], RunState, st, elapsed[i], b))
  /\ UNCHANGED <<now, fixed, mainPc, nStarts, timer>>

\* a second passes, once every task whose delay had elapsed has run: the
\* pending delays elapse, the armed timers may fall due from now on
Tick ==
  /\ \A i \in Runs : pc[i] \in Waiting => ~due[i]
  /\ \E i \in Runs : pc[i] \in Waiting \/ timer[i] = "armed"
  /\ now' = IF now < Horizon THEN now + 1 ELSE now
  /\ due' = [i \in Runs |-> pc[i] \in Waiting]
  /\ elapsed' = [i \in Runs |-> IF pc[i] \in Timed THEN elapsed[i] + 1 ELSE elapsed[i]]
  /\ timer' = [i \in Runs |-> IF timer[i] = "armed" THEN "due" ELSE timer[i]]
  /\ out' = <<>>
  /\ ev' = Event("tick", 0, NoStatus, "none")
  /\ UNCHANGED <<startTime, endTime, retries, cancelled, cancellationReason,
                 cancellationNonce, fixed, oracle, mainPc, nStarts, pc>>

\* the state after `new RerunManager()`, on one of pages showing the
\* statuses script, whose URL carries one of the parameters in urls, with the
\* static budget field holding budget
Constructed(budget, urls, pages, script) ==
  /\ startTime = InitialState.startTime
  /\ endTime = InitialState.endTime
  /\ retries = InitialState.retries
  /\ cancelled = InitialState.cancelled
  /\ cancellationReason = InitialState.cancellationReason
  /\ cancellationNonce = InitialState.cancellationNonce
  /\ now = 1
  /\ page \in pages
  /\ oracle = script
  /\ urlMaxRetryCount \in urls
  /\ maxRetryCount = budget
  /\ mainPc = "init"
  /\ nStarts = 0
  /\ pc = [i \in Runs |-> "idle"]
  /\ due = [i \in Runs |-> FALSE]
  /\ elapsed = [i \in Runs |-> 0]
  /\ timer = [i \in Runs |-> "unarmed"]
  /\ out = <<>>
  /\ ev = [op |-> "new", run |-> 0, status |-> NoStatus, click |-> "none",
           was |-> InitialState]

\* the budget scaled down, the URL without parameter
Init == Constructed(MAX_RETRY_COUNT, {NULL}, {"live", "stuck"}, <<>>)

\* the budget as the source has it, the URL with or without the parameter
DefaultInit ==
  Constructed(DEFAULT_MAX_RETRY_COUNT, {NULL, UrlRetries}, {"live", "stuck"}, <<>>)

\* the budget as the source has it, on a page that shows failed to the
\* first two segments and success from then on, and always has the buttons
ScenarioInit ==
  Constructed(DEFAULT_MAX_RETRY_COUNT, {NULL}, {"ready"}, <<FAILED, FAILED, SUCCESS>>)

Next ==
  \/ Main
  \/ ToggleStart
  \/ ToggleCancel
  \/ OtherMessage
  \/ \E i \in Runs : Timeout(i)
  \/ \E i \in Runs : Resume(i)
  \/ Tick

Spec == Init /\ [][Next]_vars

DefaultSpec == DefaultInit /\ [][Next]_vars

ScenarioSpec == ScenarioInit /\ [][Next]_vars

\* a timeout callback that is due runs
SomeTimeout == \E i \in Runs : Timeout(i)

\* a loop task whose delay has elapsed runs; when none is left, time passes
LoopOrTick == (\E i \in Runs : Resume(i)) \/ Tick

\* the event loop runs the callbacks that are due, and time passes
FairSpec == Spec /\ WF_vars(SomeTimeout) /\ WF_vars(LoopOrTick)

(* ---- what the last step was ------------------------------------------------ *)

\* the last step called cancel(reason): the listener while running, or the
\* timeout callback whose guard held
CancelCalled ==
  \/ ev.op = "toggleCancel"
  \/ ev.op = "timeout" /\ timeoutGuard(ev.was, ev.run)

\* the last step called start()
StartCalled == ev.op \in {"main", "toggleStart"}

\* the loop tasks that have begun and not returned
LiveLoops == {i \in Runs : pc[i] \in Waiting}

(* ---- C1 ------------------------------------------------------------------ *)

\* C1: in every reachable state retryCount (#retries) is at most the
\* configured maximum, MAX_RETRY_COUNT.
C1_RetriesWithinBudget == retries <= MAX_RETRY_COUNT

(* ---- C2 ------------------------------------------------------------------ *)

\* C2: every run begun by start() eventually terminates: when the timeout
\* callbacks and the loop tasks keep being run, every loop task that has
\* begun returns, and the controller stops reporting running = true: from
\* some point on no loop task is left and running is false.
C2_EveryRunTerminates == <>[](LiveLoops = {} /\ ~running(RunState))

\* a loop task has returned after its run timed out
C2_Witness ==
  /\ ev.op = "resume"
  /\ pc[ev.run] = "done"
  /\ cancelled
  /\ cancellationReason = TIMED_OUT
  /\ ~running(RunState)

(* ---- C3 ------------------------------------------------------------------ *)

\* C3: the timeout callback of an earlier run, run after a later start(),
\* changes no field of RunState and sends no snapshot: the nonce it captured
\* is not the current one.
C3_StaleTimerIsNoOp ==
  (ev.op = "timeout" /\ ev.was.cancellationNonce # ev.run)
    => (RunState = ev.was /\ out = <<>>)

\* the timer of run 1 went off while a later run was running, not cancelled
C3_Witness ==
  /\ ev.op = "timeout"
  /\ ev.was.cancellationNonce # ev.run
  /\ running(ev.was)
  /\ ~ev.was.cancelled
  /\ running(RunState)

(* ---- C4 ------------------------------------------------------------------ *)

\* C4: the timeout callback of a run, run after that same run has finished
\* or has been cancelled, does not call cancel: it changes none of cancelled,
\* cancellationReason, endTime and sends no snapshot.
C4_TimerAfterEndIsNoOp ==
  (ev.op = "timeout" /\ ev.was.cancellationNonce = ev.run /\ ~running(ev.was))
    => (RunState = ev.was /\ out = <<>>)

(* ---- C5 ------------------------------------------------------------------ *)

\* C5: cancel(reason) is idempotent: called on a run that is already cancelled
\* or already finished it changes no field of RunState and sends no snapshot.
C5_CancelIdempotent ==
  (CancelCalled /\ (ev.was.cancelled \/ finished(ev.was)))
    => (RunState = ev.was /\ out = <<>>)

(* ---- C6 ------------------------------------------------------------------ *)

C7_AtMostOneLoop == Cardinality(LiveLoops) <= 1

(* ---- C8 ------------------------------------------------------------------ *)

\* C8: each run sends exactly one final snapshot; in particular, once cancel()
\* has sent its snapshot, the loop task sends no further snapshot: a loop
\* segment entered with cancelled = true sends nothing.
C8_NoSnapshotAfterCancel ==
  (ev.op = "resume" /\ ev.was.cancelled) => out = <<>>

(* ---- C9 ------------------------------------------------------------------ *)

\* the reason the last cancel was called with
CancelReason == IF ev.op = "timeout" THEN TIMED_OUT ELSE CANCELLED_BY_USER

\* C9: cancelling a running run, by the user or by the timeout, sets
\* cancelled, sets cancellationReason to the reason passed, stamps endTime
\* and sends one snapshot that carries the reason; nothing else changes, so
\* the two differ in the reason alone.
C9_CancelEffect ==
  (CancelCalled /\ running(ev.was))
    => /\ RunState = [ev.was EXCEPT !.cancelled = TRUE,
                                    !.cancellationReason = CancelReason,
                                    !.endTime = now]
       /\ out = <<currentState(RunState, ev.status)>>
       /\ out[1].cancelled
       /\ ~out[1].running
       /\ out[1].cancellationReason = CancelReason
       /\ out[1].endTime = now

\* a running run with retries was cancelled by its timeout
C9_Witness ==
  /\ ev.op = "timeout"
  /\ running(ev.was)
  /\ ev.was.retries > 0
  /\ cancelled
  /\ cancellationReason = TIMED_OUT
  /\ Len(out) = 1

(* ---- C10 ----------------------------------------------------------------- *)

\* C10: start() on a controller that finished or was cancelled before resets
\* RunState before the loop begins: the first snapshot of the new run has
\* retries 0, cancelled false, cancellationReason null, endTime 0, running
\* true and the time of the call as startTime, whatever the run before left.
C10_StartResets ==
  (ev.op = "toggleStart")
    => /\ Len(out) = 1
       /\ out[1] = [running |-> TRUE, cancelled |-> FALSE, finished |-> FALSE,
                    status |-> ev.status, startTime |-> now, endTime |-> 0,
                    retries |-> 0, cancellationReason |-> NoReason]

\* a run that counted retries and was cancelled was started again
C10_Witness ==
  /\ ev.op = "toggleStart"
  /\ ev.was.retries > 0
  /\ ev.was.cancelled
  /\ ev.was.cancellationReason # NoReason
  /\ ev.was.endTime # NULL
  /\ Len(out) = 1
  /\ out[1].retries = 0

(* ---- C11 ----------------------------------------------------------------- *)

\* C11: the listener's "action-clicked" branch calls start() when the
\* controller is not running and cancel("cancelled by user") when it is, one
\* of the two and never both: a click that started found running = false and
\* left a running run that is not cancelled; a click that cancelled found
\* running = true, left cancelled = true with the user's reason and began no
\* run (startTime and the nonce are those of before).
C11_ToggleStartsOrCancels ==
  /\ (ev.op = "toggleStart")
       => /\ ~running(ev.was)
          /\ running(RunState)
          /\ ~cancelled
          /\ cancellationNonce = nStarts
          /\ cancellationNonce # ev.was.cancellationNonce
  /\ (ev.op = "toggleCancel")
       => /\ running(ev.was)
          /\ cancelled
          /\ cancellationReason = CANCELLED_BY_USER
          /\ startTime = ev.was.startTime
          /\ cancellationNonce = ev.was.cancellationNonce

\* the button was clicked on a run that had finished on its own, and a new
\* run began
C11_Witness ==
  /\ ev.op = "toggleStart"
  /\ finished(ev.was)
  /\ running(RunState)
  /\ nStarts = 2

(* ---- C12 ----------------------------------------------------------------- *)

\* the loop task of the last step's run returned in that step
LoopExited == ev.op = "resume" /\ pc[ev.run] = "done"

\* C12: a failed confirm does not consume the budget.  retries changes only
\* in a step whose confirm click succeeded (or in a start(), which resets
\* it), so it stays 0 for as long as every confirm fails; and a loop task
\* of the current run (the one whose nonce RunState holds) that returns with
\* retries = 0 returns because the run was cancelled (by the timeout or the
\* user) or because it read the status Success, never because the budget ran
\* out.
C12_FailedConfirmNotCounted ==
  [][/\ (ev'.click # "confirm" /\ ~StartCalled') => retries' = retries
     /\ (LoopExited' /\ ev'.run = cancellationNonce' /\ retries' = 0 /\ ~cancelled')
          => (ev'.status = SUCCESS /\ finished(RunState'))]_vars

\* the retry button was clicked, the confirm button was not found, and
\* retries is still 0
C12_Witness ==
  /\ ev.op = "resume"
  /\ ev.click = "noConfirm"
  /\ ev.was.retries = 0
  /\ retries = 0
  /\ running(RunState)

(* ---- C13 ----------------------------------------------------------------- *)

\* C13: on a page where the status is always Failed and the retry button is
\* never found, retries stays 0, the loop task of a running run keeps
\* iterating (it is in its iteration sleep whenever it is suspended), the
\* run never becomes finished, and a loop task returns only once the run is
\* cancelled, by the timeout or by the user: the budget does not bound the
\* iterations.
C13_StuckRunEndsOnlyByCancel ==
  (page = "stuck")
    => /\ retries = 0
       /\ ~finished(RunState)
       /\ running(RunState) => pc[cancellationNonce] = "sleep"
       /\ LoopExited => (cancelled /\ endTime = ev.was.endTime)

\* on such a page the loop slept through iterations until the timeout
\* cancelled the run, and then returned
C13_Witness ==
  /\ page = "stuck"
  /\ LoopExited
  /\ cancellationReason = TIMED_OUT
  /\ retries = 0
  /\ endTime > startTime + ITER_DELAY_SECS - 1

(* ---- C14 ----------------------------------------------------------------- *)

\* C14: a loop task that returns with the budget used up and the run not
\* cancelled sends, as its last snapshot, one with finished = true,
\* cancelled = false and retries equal to MAX_RETRY_COUNT.
C14_ExhaustedRunIsFinished ==
  (LoopExited /\ ~cancelled /\ ~shouldRun(RunState))
    => /\ out # <<>>
       /\ out[Len(out)].finished
       /\ ~out[Len(out)].cancelled
       /\ out[Len(out)].retries = MAX_RETRY_COUNT

(* ---- C15 ----------------------------------------------------------------- *)

\* C15: endTime is non-null exactly when the run has terminated: once a run
\* has begun, endTime is set if and only if the run was cancelled or its
\* loop task has returned; it is null while the loop task of an uncancelled
\* run is still executing.
C15_EndTimeIffTerminated ==
  (cancellationNonce # NULL)
    => ((endTime # NULL) <=> (cancelled \/ pc[cancellationNonce] = "done"))

(* ---- C16 ----------------------------------------------------------------- *)

\* C16: by default (no maxRetryCount parameter in the URL) a run counts at
\* most 5 retries, and the retry button is not clicked once 5 retries have
\* been counted.  Stated for the first run alone, where one loop task counts.
C16_DefaultBudgetIsFive ==
  (urlMaxRetryCount = NULL /\ nStarts <= 1)
    => /\ retries <= README_MAX_RETRIES
       /\ (ev.click = "retry") => ev.was.retries < README_MAX_RETRIES

(* ---- C17 ----------------------------------------------------------------- *)

\* C17: when the URL carries maxRetryCount=n, n is the budget of the run: the
\* run counts at most n retries, and the retry button is not clicked once n
\* retries have been counted.  Stated for the first run alone.
C17_UrlBudgetApplies ==
  (urlMaxRetryCount # NULL /\ nStarts <= 1)
    => /\ retries <= urlMaxRetryCount
       /\ (ev.click = "retry") => ev.was.retries < urlMaxRetryCount

(* ---- C18 ----------------------------------------------------------------- *)

\* C18: the recovery action is invoked only in an iteration in which the
\* status is Failed: a segment that clicked the retry button read the status
\* Failed, and none is clicked while the page shows Active, Success or
\* Unknown.
C18_TriggerOnlyWhenFailed ==
  (ev.click = "retry") => ev.status = FAILED

(* ---- C19 ----------------------------------------------------------------- *)

\* C19: the loop task checks the cancellation flag after every wait, the
\* 1 s delay before the confirm click included: a segment of the current
\* run's loop task entered with cancelled = true clicks neither the retry
\* nor the confirm button (it does not even try) and leaves retries as it
\* was.
C19_NoActionAfterCancel ==
  (ev.op = "resume" /\ ev.was.cancelled /\ ev.run = ev.was.cancellationNonce)
    => (ev.click = "none" /\ retries = ev.was.retries)

(* ---- C20 ----------------------------------------------------------------- *)

\* C20: a run that was not cancelled is never reported finished while the
\* status is Active.  No snapshot has finished = true together with status
\* Active; a loop task that finds the status Active after the loop, the run
\* not cancelled, waits and does not stamp endTime; and the loop
\* task that ends an uncancelled run stamps endTime and sends the terminal
\* snapshot in a segment that read a status other than Active.
C20_NotFinishedWhileActive ==
  /\ \A k \in 1..Len(out) : out[k].finished => out[k].status # ACTIVE
  /\ (ev.op = "resume" /\ pc[ev.run] = "drain")
       => (ev.status = ACTIVE /\ endTime = ev.was.endTime)
  /\ (LoopExited /\ ~cancelled)
       => /\ ev.status # ACTIVE
          /\ endTime # NULL
          /\ out[Len(out)].finished
          /\ out[Len(out)].status = ev.status

(* ---- C21 ----------------------------------------------------------------- *)

\* C21: apart from the reset in start(), retries changes only in the loop,
\* by one, in the segment that resumes after a successful retry click and
\* whose confirm click succeeds; that segment sends at once a snapshot with
\* the new count.  A segment whose confirm click fails leaves retries as it
\* was and, the loop condition still holding, goes on to the iteration
\* sleep.
C21_CountOnlyOnConfirm ==
  [][~StartCalled' =>
       /\ retries' \in {retries, retries + 1}
       /\ (retries' # retries)
            => /\ ev'.op = "resume"
               /\ pc[ev'.run] = "confirm"
               /\ ev'.click = "confirm"
               /\ out' # <<>>
               /\ out'[1].retries = retries'
       /\ (ev'.click = "noConfirm")
            => /\ retries' = retries
               /\ out' = <<>> \/ ~shouldRun(RunState')
               /\ shouldRun(RunState') => pc'[ev'.run] = "sleep"]_vars

\* the second retry of a run was confirmed and reported
C21_Witness ==
  /\ ev.op = "resume"
  /\ ev.click = "confirm"
  /\ ev.was.retries = 1
  /\ retries = 2
  /\ out[1].retries = 2

(* ---- C22 ----------------------------------------------------------------- *)

\* C22: every iteration of a run that is not cancelled sleeps before the
\* check for Success, the iteration that used up the budget included: when
\* the loop task is through with the clicks and the settle wait of an
\* iteration and the run is not cancelled, it goes to the iteration sleep,
\* and it leaves the sleep only ITER_DELAY_SECS seconds after it began.
\* Stated for the first run alone.
C22_EveryIterationSleeps ==
  [][(ev'.op = "resume" /\ nStarts' = 1 /\ ~cancelled') =>
       /\ (pc[ev'.run] \in {"confirm", "settle"} /\ pc'[ev'.run] # "settle")
            => pc'[ev'.run] = "sleep"
       /\ (pc[ev'.run] = "sleep" /\ pc'[ev'.run] # "sleep")
            => elapsed[ev'.run] >= ITER_DELAY_SECS]_vars

(* ---- C23 ----------------------------------------------------------------- *)

\* the last step was a segment of a loop task
LoopStep == ev.op \in {"main", "toggleStart", "resume"}

\* C23: the settle wait is entered only by the segment whose confirm click
\* succeeded (after a successful retry click); a loop task stays in it only
\* while the run is not cancelled, the status is not Active and less than
\* SETTLE_SECS seconds have passed since it began, and leaves it at the
\* first poll where one of the three fails; it never lasts longer than
\* SETTLE_SECS.
C23_SettleWaitBounded ==
  [][/\ LoopStep' =>
          /\ (pc'[ev'.run] = "settle" /\ pc[ev'.run] # "settle")
               => (pc[ev'.run] = "confirm" /\ ev'.click = "confirm")
          /\ (pc'[ev'.run] = "settle")
               => /\ ~cancelled'
                  /\ ev'.status # ACTIVE
                  /\ elapsed'[ev'.run] < SETTLE_SECS
          /\ (pc[ev'.run] = "settle" /\ pc'[ev'.run] # "settle")
               => \/ cancelled
                  \/ ev'.status = ACTIVE
                  \/ elapsed[ev'.run] >= SETTLE_SECS
     /\ \A i \in Runs : pc'[i] = "settle" => elapsed'[i] <= SETTLE_SECS]_vars

\* a settle wait ran out: the loop task read a status other than Active,
\* the run not cancelled, and went on to the iteration sleep
C23_Witness ==
  /\ ev.op = "resume"
  /\ ev.click = "none"
  /\ ev.status \in JobStatus \ {ACTIVE, SUCCESS}
  /\ ~cancelled
  /\ pc[ev.run] = "sleep"
  /\ elapsed[ev.run] = 0

(* ---- C24 ----------------------------------------------------------------- *)

\* C24: Success is tested once per iteration, after the sleep.  The loop
\* task that leaves its iteration sleep and reads Success breaks: in that
\* same segment it clicks nothing, counts nothing, returns and sends the
\* terminal snapshot, which has finished = true and cancelled = false unless
\* the run was cancelled; a loop task that has returned never acts again; and
\* a segment of the loop that did not come from the sleep does not end the
\* loop while the loop condition holds, whatever status it read.
C24_SuccessBreaksAfterSleep ==
  [][/\ (ev'.op = "resume" /\ pc[ev'.run] = "sleep" /\ pc'[ev'.run] # "sleep"
           /\ ev'.status = SUCCESS)
          => /\ pc'[ev'.run] = "done"
             /\ ev'.click = "none"
             /\ retries' = retries
             /\ out' = <<currentState(RunState', SUCCESS)>>
             /\ ~cancelled => /\ finished(RunState')
                              /\ out'[1].finished
                              /\ ~out'[1].cancelled
     /\ \A i \in Runs : pc[i] = "done" => pc'[i] = "done"
     /\ (LoopStep' /\ pc[ev'.run] \notin {"sleep", "drain"} /\ shouldRun(RunState'))
          => pc'[ev'.run] \in {"confirm", "settle", "sleep"}]_vars

\* a run with budget left, not cancelled, read Success after its sleep and
\* ended finished
C24_Witness ==
  /\ LoopExited
  /\ ev.status = SUCCESS
  /\ shouldRun(ev.was)
  /\ ev.was.retries = 1
  /\ finished(RunState)
  /\ out[1].finished
  /\ nStarts = 1

(* ---- C25 ----------------------------------------------------------------- *)

\* C25: cancellation is observed within one poll.  The first segment a loop
\* task runs after cancel() (no start() in between, so cancelled is still
\* true when it resumes) ends the task: it leaves the loop, skips the
\* post-loop wait even if the status is Active, and returns; for the loop
\* task of the cancelled run this is at most one second after the cancel.
C25_CancelSeenWithinOnePoll ==
  (ev.op = "resume" /\ ev.was.cancelled)
    => /\ pc[ev.run] = "done"
       /\ cancelled
       /\ endTime = ev.was.endTime
       /\ (ev.run = cancellationNonce) => now <= endTime + 1

\* a cancelled run whose loop task woke with the job active, and returned
\* without waiting for it
C25_Witness ==
  /\ ev.op = "resume"
  /\ ev.was.cancelled
  /\ ev.run = cancellationNonce
  /\ ev.status = ACTIVE
  /\ pc[ev.run] = "done"
  /\ now = endTime + 1

(* ---- C26 ----------------------------------------------------------------- *)

\* C26: with the statuses Failed, Failed, Success (the last one staying),
\* both buttons always found and a budget of 8, the first run, left alone
\* (no cancel, no timeout, no restart), counts exactly one retry: retries
\* never exceeds 1, the loop task returns in a segment that read Success,
\* with retries = 1, and the terminal snapshot it sends has finished = true,
\* cancelled = false, retries = 1 and endTime > startTime.
C26_FailedFailedSuccess ==
  (nStarts = 1 /\ ~cancelled)
    => /\ retries <= 1
       /\ maxRetryCount = 8
       /\ (pc[1] = "done")
            => (retries = 1 /\ finished(RunState) /\ endTime > startTime)
       /\ (LoopExited)
            => /\ ev.status = SUCCESS
               /\ ev.click = "none"
               /\ Len(out) = 1
               /\ out[1].finished
               /\ ~out[1].cancelled
               /\ out[1].retries = 1
               /\ out[1].status = SUCCESS
               /\ out[1].endTime > out[1].startTime

\* the run of the scenario broke out of the loop on Success and ended
\* finished, with one retry counted
C26_Witness ==
  /\ nStarts = 1
  /\ LoopExited
  /\ oracle = <<SUCCESS>>
  /\ page = "ready"
  /\ retries = 1
  /\ out[1].finished
  /\ out[1].endTime > out[1].startTime

(* ---- C27 ----------------------------------------------------------------- *)

FlagsSet(snap) ==
  (IF snap.running THEN 1 ELSE 0) + (IF snap.finished THEN 1 ELSE 0)
    + (IF snap.cancelled THEN 1 ELSE 0)

\* C28: in every snapshot the controller can produce, at most one of
\* running, finished and cancelled is true, and none is true only before the
\* first start(): currentState taken in any reachable state, and every
\* snapshot sent, has exactly one of them true once start() was called, and
\* none before.
C28_OneFlagAtATime ==
  /\ \A st \in JobStatus :
       FlagsSet(currentState(RunState, st)) = IF nStarts = 0 THEN 0 ELSE 1
  /\ \A k \in 1..Len(out) : FlagsSet(out[k]) = 1

\* a run that had finished on its own was cancelled by its timer: its
\* snapshot says cancelled, and no longer finished
C28_Witness ==
  /\ ev.op = "timeout"
  /\ finished(ev.was)
  /\ Len(out) = 1
  /\ out[1].cancelled
  /\ ~out[1].finished
  /\ ~out[1].running

====
